---- MODULE Spec2Model ----
(***************************************************************************)
(* Model of pipeline/sync.py: the NFL data sync pipeline.                  *)
(*                                                                         *)
(* qb_stats is the DataFrame fetch_all_qb_stats returns; def_rankings the  *)
(* one calculate_defensive_rankings derives from it; db is the relational  *)
(* store (tables TeamDefenseSnapshot, QB, QBPerformance) as committed, and *)
(* conn the view of the connection that is writing (db plus its            *)
(* uncommitted statements).  A DataFrame is a sequence of records, a table *)
(* a set of records.                                                       *)
(***************************************************************************)
EXTENDS Integers, Sequences, FiniteSets, TLC

VARIABLES
    qb_stats,      \* main: the fetched passer-week rows
    games_data,    \* the completed games the rows were fetched from
    def_rankings,  \* main: calculate_defensive_rankings(qb_stats)
    team_records,  \* calculate_team_records(qb_stats, games_data)
    notable_qbs,   \* main: identify_notable_qbs(qb_stats)
    valid_teams,   \* ids read from the Team table
    enriched,      \* upsert_qbs_and_performances: qb_stats merged with ranks
    qb_map,        \* upsert_qbs_and_performances: gsis_id -> QB.id
    i,             \* offset of the current batch (the range loop's i)
    k,             \* rows of the current batch / QB loop already handled
    pc,            \* position of the pipeline
    run,           \* number of the current invocation of main
    db,            \* the store, committed
    conn,          \* the store as the writing connection sees it
    db0,           \* history: db when the current run started
    prev           \* history: how the run before ended, whether it had the
                   \* same feed, and (for a retry of a failed run) db when
                   \* it started

vars == <<qb_stats, games_data, def_rankings, team_records, notable_qbs,
          valid_teams, enriched, qb_map, i, k, pc, run, db, conn, db0, prev>>

-----------------------------------------------------------------------------
(* Bounds of the model and constants of the program. *)

MaxRows == 3            \* rows of one fetched DataFrame
MaxRuns == 2            \* invocations of main in one behaviour
BatchSize == 2          \* batch_size (100 in the source), scaled to MaxRows

MIN_PASS_ATTEMPTS == 50
DefaultRank == 16

SEASONS == <<2025, 2024>>
Weeks == {1, 2}
TeamOrder == <<"A", "B", "X">>     \* abbreviations of the feed, ascending
Teams == {TeamOrder[n] : n \in 1..Len(TeamOrder)}
Team == {"A", "B"}                 \* the ids of table "Team"

TeamIdx(t) == CHOOSE n \in 1..Len(TeamOrder) : TeamOrder[n] = t
SeasonIdx(s) == CHOOSE n \in 1..Len(SEASONS) : SEASONS[n] = s

(* A rational number: win percentages are floats in the source. den = 0   *)
(* stands for a missing value (NaN).                                       *)
Rat(n, d) == [num |-> n, den |-> d]
Half == Rat(1, 2)
Missing == Rat(0, 0)

-----------------------------------------------------------------------------
(* fetch_game_qb_stats: one row per passer with attempts > 0.              *)

StatRow(p, t, o, s, w, att, py, ry) ==
    [player_id |-> p, name |-> p, headshot_url |-> "href", team_abbr |-> t,
     completions |-> 0, attempts |-> att, pass_yards |-> py, pass_tds |-> 0,
     interceptions |-> 0, sacks |-> 0, rush_yards |-> ry, rush_tds |-> 0,
     season |-> s, week |-> w, opponent |-> o, fumbles |-> 0]

(* fetch_all_qb_stats appends season by season in the order of SEASONS and *)
(* fetch_season_games week by week, ascending.                             *)
FetchOrdered(rows) ==
    \A m, n \in 1..Len(rows) : m < n =>
        \/ SeasonIdx(rows[m].season) < SeasonIdx(rows[n].season)
        \/ /\ rows[m].season = rows[n].season
           /\ rows[m].week <= rows[n].week

(* The feeds of the function-level specification: every combination of     *)
(* season, week, defending team and yardage (pass, rush).                  *)
Facing(o) == IF o = "A" THEN "B" ELSE "A"
QbOf(t) == IF t = "A" THEN "p1" ELSE "p2"
Yardage == {<<300, 0>>, <<450, 0>>, <<0, -30>>}
FnRows ==
    {StatRow(QbOf(Facing(o)), Facing(o), o, SEASONS[s], w, 20, y[1], y[2]) :
        s \in 1..Len(SEASONS), w \in Weeks, o \in Teams, y \in Yardage}
(* a feed of the function-level specification *)
FnFeed(f) == Len(f) > 0 /\ FetchOrdered(f)

(* The feeds of the pipeline specification: passer-weeks of two players;   *)
(* team X is not in table "Team"; the second row is the first after a      *)
(* retroactive correction of its yards; the last is of an earlier season.  *)
PoolRows ==
    {StatRow("p1", "A", "B", 2025, 1, 20, 300, 0),
     StatRow("p1", "A", "B", 2025, 1, 20, 450, 0),
     StatRow("p1", "A", "X", 2025, 2, 35, 300, 0),
     StatRow("p2", "X", "A", 2025, 2, 49, 300, 0),
     StatRow("p1", "B", "A", 2024, 1, 35, 300, 0)}
(* passing_stats is keyed by the athlete's id: one row per passer and game *)
OnePerGame(f) ==
    \A m, n \in 1..Len(f) :
        (/\ f[m].player_id = f[n].player_id
         /\ f[m].season = f[n].season
         /\ f[m].week = f[n].week) => m = n
(* a feed of the pipeline specification *)
Feed(f) == FetchOrdered(f) /\ OnePerGame(f)

(* The games a feed was fetched from (fetch_season_games keeps completed   *)
(* games only).                                                            *)
GamesOf(rows) ==
    {[season |-> rows[n].season, week |-> rows[n].week,
      home_team |-> rows[n].team_abbr, away_team |-> rows[n].opponent] :
        n \in 1..Len(rows)}

-----------------------------------------------------------------------------
(* calculate_defensive_rankings *)

RECURSIVE SumCol(_, _, _, _, _)
SumCol(rows, s, w, o, col) ==
    IF rows = <<>> THEN 0
    ELSE LET r == Head(rows) IN
         (IF r.season = s /\ r.week = w /\ r.opponent = o THEN r[col] ELSE 0)
         + SumCol(Tail(rows), s, w, o, col)

(* groupby(['season', 'week', 'opponent']).agg(sum), then the rename *)
GroupByAggMutLatestSeason(rows) ==
    {[season |-> g[1], week |-> g[2], team_id |-> g[3],
      pass_yards_allowed |-> SumCol(rows, g[1], g[2], g[3], "pass_yards"),
      rush_yards_allowed |-> SumCol(rows, g[1], g[2], g[3], "rush_yards")] :
        g \in {<<rows[n].season, rows[n].week, rows[n].opponent>> :
                  n \in {m \in 1..Len(rows) :
                            \A j \in 1..Len(rows) : rows[j].season <= rows[m].season}}}

GroupByAgg(rows) ==
    {[season |-> g[1], week |-> g[2], team_id |-> g[3],
      pass_yards_allowed |-> SumCol(rows, g[1], g[2], g[3], "pass_yards"),
      rush_yards_allowed |-> SumCol(rows, g[1], g[2], g[3], "rush_yards")] :
        g \in {<<rows[n].season, rows[n].week, rows[n].opponent>> :
                  n \in 1..Len(rows)}}

(* sort_values(['season', 'team_id', 'week']) *)
SortKeyLeq(a, b) ==
    \/ a.season < b.season
    \/ a.season = b.season /\ TeamIdx(a.team_id) < TeamIdx(b.team_id)
    \/ a.season = b.season /\ a.team_id = b.team_id /\ a.week <= b.week

RECURSIVE SortValues(_)
SortValues(S) ==
    IF S = {} THEN <<>>
    ELSE LET m == CHOOSE x \in S : \A y \in S : SortKeyLeq(x, y)
         IN  <<m>> \o SortValues(S \ {m})

(* groupby(['season', 'team_id'])[col].cumsum() over the sorted frame: the *)
(* running total restarts where the (season, team_id) group changes.       *)
CumSumMutNoRunningTotal(stats, n, col) ==
    stats[n][col]

RECURSIVE CumSumMutAcrossSeasons(_, _, _)
CumSumMutAcrossSeasons(stats, n, col) ==
    IF n > 1 /\ stats[n-1].team_id = stats[n].team_id
    THEN CumSumMutAcrossSeasons(stats, n-1, col) + stats[n][col]
    ELSE stats[n][col]

RECURSIVE CumSum(_, _, _)
CumSum(stats, n, col) ==
    IF n > 1 /\ stats[n-1].season = stats[n].season
             /\ stats[n-1].team_id = stats[n].team_id
    THEN CumSum(stats, n-1, col) + stats[n][col]
    ELSE stats[n][col]

WithCum(stats) ==
    [n \in 1..Len(stats) |->
        LET cp == CumSum(stats, n, "pass_yards_allowed")
            cr == CumSum(stats, n, "rush_yards_allowed")
        IN  [season |-> stats[n].season, week |-> stats[n].week,
             team_id |-> stats[n].team_id,
             pass_yards_allowed |-> stats[n].pass_yards_allowed,
             rush_yards_allowed |-> stats[n].rush_yards_allowed,
             cum_pass_yards_allowed |-> cp,
             cum_rush_yards_allowed |-> cr,
             cum_total_yards_allowed |-> cp + cr]]

(* rank(method='min', ascending=True): the values of the group are sorted  *)
(* and a value takes the first position it occupies.                       *)
RECURSIVE Insert(_, _)
Insert(v, sorted) ==
    IF sorted = <<>> THEN <<v>>
    ELSE IF v <= Head(sorted) THEN <<v>> \o sorted
    ELSE <<Head(sorted)>> \o Insert(v, Tail(sorted))

RECURSIVE SortedCol(_, _, _, _)
SortedCol(stats, s, w, col) ==
    IF stats = <<>> THEN <<>>
    ELSE LET rest == SortedCol(Tail(stats), s, w, col)
             r == Head(stats)
         IN  IF r.season = s /\ r.week = w THEN Insert(r[col], rest) ELSE rest

RankMutDense(stats, n, col) ==
    LET sorted == SortedCol(stats, stats[n].season, stats[n].week, col)
    IN  Cardinality({v \in {sorted[m] : m \in 1..Len(sorted)} :
                        v <= stats[n][col]})

RankMin(stats, n, col) ==
    LET sorted == SortedCol(stats, stats[n].season, stats[n].week, col)
    IN  CHOOSE m \in 1..Len(sorted) :
            /\ sorted[m] = stats[n][col]
            /\ \A j \in 1..(m-1) : sorted[j] # stats[n][col]

calculate_defensive_rankings(rows) ==
    LET stats == WithCum(SortValues(GroupByAgg(rows)))
    IN  [n \in 1..Len(stats) |->
            [season |-> stats[n].season, week |-> stats[n].week,
             team_id |-> stats[n].team_id,
             pass_yards_allowed |-> stats[n].pass_yards_allowed,
             rush_yards_allowed |-> stats[n].rush_yards_allowed,
             cum_pass_yards_allowed |-> stats[n].cum_pass_yards_allowed,
             cum_rush_yards_allowed |-> stats[n].cum_rush_yards_allowed,
             cum_total_yards_allowed |-> stats[n].cum_total_yards_allowed,
             pass_def_rank |-> RankMin(stats, n, "cum_pass_yards_allowed"),
             rush_def_rank |-> RankMin(stats, n, "cum_rush_yards_allowed"),
             total_def_rank |-> RankMin(stats, n, "cum_total_yards_allowed")]]

-----------------------------------------------------------------------------
(* calculate_team_records: one record per team of the season and per week  *)
(* 1..max week, all counters 0 and win_pct 0.5; games_data is not read.    *)

MaxWeek(rows, s) ==
    CHOOSE w \in {rows[n].week : n \in {m \in 1..Len(rows) : rows[m].season = s}} :
        \A n \in 1..Len(rows) : rows[n].season = s => rows[n].week <= w

calculate_team_records(rows, games) ==
    UNION {
        {[season |-> s, week |-> w, team |-> t,
          wins |-> 0, losses |-> 0, ties |-> 0, win_pct |-> Half] :
            t \in {rows[n].team_abbr : n \in {m \in 1..Len(rows) : rows[m].season = s}}
                  \cup {rows[n].opponent : n \in {m \in 1..Len(rows) : rows[m].season = s}},
            w \in 1..MaxWeek(rows, s)} :
        s \in {rows[n].season : n \in 1..Len(rows)}}

-----------------------------------------------------------------------------
(* identify_notable_qbs *)

MostRecent(rows) ==
    CHOOSE s \in {rows[n].season : n \in 1..Len(rows)} :
        \A n \in 1..Len(rows) : rows[n].season <= s

RECURSIVE SeasonAttempts(_, _, _)
SeasonAttempts(rows, s, p) ==
    IF rows = <<>> THEN 0
    ELSE LET r == Head(rows) IN
         (IF r.season = s /\ r.player_id = p THEN r.attempts ELSE 0)
         + SeasonAttempts(Tail(rows), s, p)

identify_notable_qbs(rows) ==
    LET most_recent == MostRecent(rows)
        current == {rows[n].player_id :
                       n \in {m \in 1..Len(rows) : rows[m].season = most_recent}}
    IN  {p \in current : SeasonAttempts(rows, most_recent, p) >= MIN_PASS_ATTEMPTS}

-----------------------------------------------------------------------------
(* The store. gen_random_uuid() is a fresh id of the table, NOW() the time *)
(* of the run.                                                             *)

EmptyDb == [TeamDefenseSnapshot |-> {}, QB |-> {}, QBPerformance |-> {}]
NoRun == [same_feed |-> FALSE, status |-> "none", db0 |-> EmptyDb]

FreshId(tbl) == Cardinality(tbl) + 1

(* the parameters of the TeamDefenseSnapshot statement *)
SnapshotParams(row) ==
    [team_id |-> row.team_id, season |-> row.season, week |-> row.week,
     pass_yards_allowed |-> row.cum_pass_yards_allowed,
     rush_yards_allowed |-> row.cum_rush_yards_allowed,
     total_yards_allowed |-> row.cum_total_yards_allowed,
     pass_def_rank |-> row.pass_def_rank,
     rush_def_rank |-> row.rush_def_rank,
     total_def_rank |-> row.total_def_rank]

(* INSERT INTO "TeamDefenseSnapshot" ... ON CONFLICT (team_id, season,     *)
(* week) DO UPDATE SET ...                                                 *)
UpsertSnapshot(tbl, p, now) ==
    LET hit == {r \in tbl : /\ r.team_id = p.team_id
                            /\ r.season = p.season
                            /\ r.week = p.week}
    IN  IF hit = {}
        THEN tbl \cup
             {[id |-> FreshId(tbl), team_id |-> p.team_id, season |-> p.season,
               week |-> p.week,
               pass_yards_allowed |-> p.pass_yards_allowed,
               rush_yards_allowed |-> p.rush_yards_allowed,
               total_yards_allowed |-> p.total_yards_allowed,
               points_allowed |-> 0, wins |-> 0, losses |-> 0, ties |-> 0,
               pass_def_rank |-> p.pass_def_rank,
               rush_def_rank |-> p.rush_def_rank,
               total_def_rank |-> p.total_def_rank,
               createdAt |-> now, updatedAt |-> now]}
        ELSE (tbl \ hit) \cup
             {[r EXCEPT !.pass_yards_allowed = p.pass_yards_allowed,
                        !.rush_yards_allowed = p.rush_yards_allowed,
                        !.total_yards_allowed = p.total_yards_allowed,
                        !.pass_def_rank = p.pass_def_rank,
                        !.rush_def_rank = p.rush_def_rank,
                        !.total_def_rank = p.total_def_rank,
                        !.updatedAt = now] : r \in hit}

(* the parameters of the QB statement *)
QbParams(qb, notable) ==
    [gsis_id |-> qb.player_id, name |-> qb.name,
     headshot_url |-> qb.headshot_url, team_id |-> qb.team_abbr,
     is_notable |-> qb.player_id \in notable]

(* INSERT INTO "QB" ... ON CONFLICT (gsis_id) DO UPDATE SET ... *)
UpsertQBMutKeepsNotable(tbl, p, now) ==
    LET hit == {r \in tbl : r.gsis_id = p.gsis_id}
    IN  IF hit = {}
        THEN tbl \cup
             {[id |-> FreshId(tbl), gsis_id |-> p.gsis_id, name |-> p.name,
               headshot_url |-> p.headshot_url, team_id |-> p.team_id,
               isNotable |-> p.is_notable,
               createdAt |-> now, updatedAt |-> now]}
        ELSE (tbl \ hit) \cup
             {[r EXCEPT !.name = p.name,
                        !.headshot_url = p.headshot_url,
                        !.team_id = p.team_id,
                        !.isNotable = r.isNotable \/ p.is_notable,
                        !.updatedAt = now] : r \in hit}

UpsertQB(tbl, p, now) ==
    LET hit == {r \in tbl : r.gsis_id = p.gsis_id}
    IN  IF hit = {}
        THEN tbl \cup
             {[id |-> FreshId(tbl), gsis_id |-> p.gsis_id, name |-> p.name,
               headshot_url |-> p.headshot_url, team_id |-> p.team_id,
               isNotable |-> p.is_notable,
               createdAt |-> now, updatedAt |-> now]}
        ELSE (tbl \ hit) \cup
             {[r EXCEPT !.name = p.name,
                        !.headshot_url = p.headshot_url,
                        !.team_id = p.team_id,
                        !.isNotable = p.is_notable,
                        !.updatedAt = now] : r \in hit}

(* the parameters of the QBPerformance statement *)
PerfParams(perf, qb_id) ==
    [qb_id |-> qb_id, season |-> perf.season, week |-> perf.week,
     opponent_id |-> perf.opponent,
     pass_yards |-> perf.pass_yards, pass_tds |-> perf.pass_tds,
     pass_attempts |-> perf.attempts, completions |-> perf.completions,
     rush_yards |-> perf.rush_yards, rush_tds |-> perf.rush_tds,
     interceptions |-> perf.interceptions, sacks |-> perf.sacks,
     fumbles |-> perf.fumbles,
     opp_win_pct |-> perf.opp_win_pct,
     opp_pass_def_rank |-> perf.pass_def_rank,
     opp_total_def_rank |-> perf.total_def_rank]

PerfRecord(id, p, created, now) ==
    [id |-> id, qb_id |-> p.qb_id, season |-> p.season, week |-> p.week,
     opponent_id |-> p.opponent_id,
     pass_yards |-> p.pass_yards, pass_tds |-> p.pass_tds,
     pass_attempts |-> p.pass_attempts, completions |-> p.completions,
     rush_yards |-> p.rush_yards, rush_tds |-> p.rush_tds,
     interceptions |-> p.interceptions, sacks |-> p.sacks,
     fumbles |-> p.fumbles,
     opp_win_pct |-> p.opp_win_pct,
     opp_pass_def_rank |-> p.opp_pass_def_rank,
     opp_total_def_rank |-> p.opp_total_def_rank,
     createdAt |-> created, updatedAt |-> now]

(* INSERT INTO "QBPerformance" ... ON CONFLICT (qb_id, season, week) DO    *)
(* UPDATE SET ...                                                          *)
UpsertPerformanceMutPlainInsert(tbl, p, now) ==
    tbl \cup {PerfRecord(FreshId(tbl), p, now, now)}

UpsertPerformance(tbl, p, now) ==
    LET hit == {r \in tbl : /\ r.qb_id = p.qb_id
                            /\ r.season = p.season
                            /\ r.week = p.week}
    IN  IF hit = {}
        THEN tbl \cup {PerfRecord(FreshId(tbl), p, now, now)}
        ELSE (tbl \ hit) \cup {PerfRecord(r.id, p, r.createdAt, now) : r \in hit}

(* `with engine.connect() as conn:` left by an exception: the connection   *)
(* closes and its uncommitted statements are discarded.                    *)
RollbackMutAutocommit(committed, view) == view

Rollback(committed, view) == committed

(* conn.commit() *)
CommitMutMissing(committed, view) == committed

Commit(committed, view) == view

-----------------------------------------------------------------------------
(* upsert_qbs_and_performances: the merge and the QB frame. *)

NaN == -1

(* merge(..., left_on=['season', 'week', 'opponent'], right_on=['season',  *)
(* 'week', 'team_id'], how='left'): a left row once per matching right     *)
(* row, in the right frame's order, or once with missing values.           *)
RECURSIVE MatchesOfMutWeekBefore(_, _)
MatchesOfMutWeekBefore(left, right) ==
    IF right = <<>> THEN <<>>
    ELSE LET r == Head(right) IN
         (IF r.season = left.season /\ r.week = left.week - 1
                 /\ r.team_id = left.opponent
          THEN <<r>> ELSE <<>>) \o MatchesOfMutWeekBefore(left, Tail(right))

RECURSIVE MatchesOf(_, _)
MatchesOf(left, right) ==
    IF right = <<>> THEN <<>>
    ELSE LET r == Head(right) IN
         (IF r.season = left.season /\ r.week = left.week
                 /\ r.team_id = left.opponent
          THEN <<r>> ELSE <<>>) \o MatchesOf(left, Tail(right))

Joined(left, team_id, pass_rank, total_rank) ==
    [player_id |-> left.player_id, name |-> left.name,
     headshot_url |-> left.headshot_url, team_abbr |-> left.team_abbr,
     completions |-> left.completions, attempts |-> left.attempts,
     pass_yards |-> left.pass_yards, pass_tds |-> left.pass_tds,
     interceptions |-> left.interceptions, sacks |-> left.sacks,
     rush_yards |-> left.rush_yards, rush_tds |-> left.rush_tds,
     season |-> left.season, week |-> left.week,
     opponent |-> left.opponent, fumbles |-> left.fumbles,
     team_id |-> team_id, pass_def_rank |-> pass_rank,
     total_def_rank |-> total_rank]

RECURSIVE Merge(_, _)
Merge(left, right) ==
    IF left = <<>> THEN <<>>
    ELSE LET ms == MatchesOf(Head(left), right)
         IN  (IF ms = <<>>
              THEN <<Joined(Head(left), "NaN", NaN, NaN)>>
              ELSE [n \in 1..Len(ms) |->
                      Joined(Head(left), ms[n].team_id, ms[n].pass_def_rank,
                             ms[n].total_def_rank)])
             \o Merge(Tail(left), right)

(* fillna(16).astype(int) *)
FillnaMutLeagueSize(v) == IF v = NaN THEN 32 ELSE v

Fillna(v) == IF v = NaN THEN DefaultRank ELSE v

Enriched(stats, rankings) ==
    LET merged == Merge(stats, rankings)
    IN  [n \in 1..Len(merged) |->
            [player_id |-> merged[n].player_id, name |-> merged[n].name,
             headshot_url |-> merged[n].headshot_url,
             team_abbr |-> merged[n].team_abbr,
             completions |-> merged[n].completions,
             attempts |-> merged[n].attempts,
             pass_yards |-> merged[n].pass_yards,
             pass_tds |-> merged[n].pass_tds,
             interceptions |-> merged[n].interceptions,
             sacks |-> merged[n].sacks,
             rush_yards |-> merged[n].rush_yards,
             rush_tds |-> merged[n].rush_tds,
             season |-> merged[n].season, week |-> merged[n].week,
             opponent |-> merged[n].opponent, fumbles |-> merged[n].fumbles,
             team_id |-> merged[n].team_id,
             pass_def_rank |-> Fillna(merged[n].pass_def_rank),
             total_def_rank |-> Fillna(merged[n].total_def_rank),
             opp_win_pct |-> Half]]

(* drop_duplicates(subset=['player_id']): the first row of each player *)
RECURSIVE DropDuplicates(_, _)
DropDuplicates(rows, seen) ==
    IF rows = <<>> THEN <<>>
    ELSE IF Head(rows).player_id \in seen
         THEN DropDuplicates(Tail(rows), seen)
         ELSE <<Head(rows)>>
              \o DropDuplicates(Tail(rows), seen \cup {Head(rows).player_id})

unique_qbs == DropDuplicates(enriched, {})

(* qb_map.get(gsis_id): the id, or 0 for None *)
QbMapGet(map, g) ==
    IF \E e \in map : e[1] = g THEN (CHOOSE e \in map : e[1] = g)[2] ELSE 0

-----------------------------------------------------------------------------
(* main *)

Init ==
    /\ \E len \in 0..MaxRows : qb_stats \in [1..len -> PoolRows]
    /\ Feed(qb_stats)
    /\ games_data = GamesOf(qb_stats)
    /\ def_rankings = <<>>
    /\ team_records = {}
    /\ notable_qbs = {}
    /\ valid_teams = {}
    /\ enriched = <<>>
    /\ qb_map = {}
    /\ i = 0 /\ k = 0
    /\ pc = "rank"
    /\ run = 1
    /\ db = EmptyDb /\ conn = EmptyDb /\ db0 = EmptyDb
    /\ prev = NoRun

(* if len(qb_stats) == 0: sys.exit(1) *)
ExitNoStats ==
    /\ pc = "rank"
    /\ Len(qb_stats) = 0
    /\ pc' = "exit"
    /\ UNCHANGED <<qb_stats, games_data, def_rankings, team_records, notable_qbs,
                   valid_teams, enriched, qb_map, i, k, run, db, conn, db0, prev>>

CalcRankings ==
    /\ pc = "rank"
    /\ Len(qb_stats) > 0
    /\ def_rankings' = calculate_defensive_rankings(qb_stats)
    /\ pc' = "notable"
    /\ UNCHANGED <<qb_stats, games_data, team_records, notable_qbs, valid_teams,
                   enriched, qb_map, i, k, run, db, conn, db0, prev>>

IdentifyNotable ==
    /\ pc = "notable"
    /\ notable_qbs' = identify_notable_qbs(qb_stats)
    /\ pc' = "snap_teams"
    /\ UNCHANGED <<qb_stats, games_data, def_rankings, team_records, valid_teams,
                   enriched, qb_map, i, k, run, db, conn, db0, prev>>

(* upsert_team_defense_snapshots: SELECT id FROM "Team" *)
SnapLoadTeams ==
    /\ pc = "snap_teams"
    /\ valid_teams' = Team
    /\ i' = 0 /\ k' = 0
    /\ pc' = IF Len(def_rankings) = 0 THEN "enrich" ELSE "snap"
    /\ UNCHANGED <<qb_stats, games_data, def_rankings, team_records, notable_qbs,
                   enriched, qb_map, run, db, conn, db0, prev>>

(* the last row of batch def_rankings.iloc[i:i+batch_size] is row n *)
BatchEnds(n, len) == k + 1 = BatchSize \/ n = len

(* upsert_team_defense_snapshots: one turn of the loop over the batch's    *)
(* rows, and conn.commit() after the batch's last row.                     *)
SnapRow ==
    /\ pc = "snap"
    /\ LET n == i + k + 1
           row == def_rankings[n]
           view == IF row.team_id \notin valid_teams THEN conn
                   ELSE [conn EXCEPT !.TeamDefenseSnapshot =
                            UpsertSnapshot(@, SnapshotParams(row), run)]
       IN  IF BatchEnds(n, Len(def_rankings))
           THEN /\ db' = Commit(db, view)
                /\ conn' = Commit(db, view)
                /\ k' = 0
                /\ i' = IF n = Len(def_rankings) THEN 0 ELSE i + BatchSize
                /\ pc' = IF n = Len(def_rankings) THEN "enrich" ELSE "snap"
           ELSE /\ conn' = view
                /\ k' = k + 1
                /\ UNCHANGED <<db, i, pc>>
    /\ UNCHANGED <<qb_stats, games_data, def_rankings, team_records, notable_qbs,
                   valid_teams, enriched, qb_map, run, db0, prev>>

(* upsert_qbs_and_performances: the merge, the defaults, and SELECT id     *)
(* FROM "Team"                                                             *)
Enrich ==
    /\ pc = "enrich"
    /\ enriched' = Enriched(qb_stats, def_rankings)
    /\ valid_teams' = Team
    /\ i' = 0 /\ k' = 0
    /\ pc' = "qb"
    /\ UNCHANGED <<qb_stats, games_data, def_rankings, team_records, notable_qbs,
                   qb_map, run, db, conn, db0, prev>>

(* one turn of the loop over unique_qbs, and conn.commit() after the last *)
QbRow ==
    /\ pc = "qb"
    /\ LET n == k + 1
           qb == unique_qbs[n]
           view == [conn EXCEPT !.QB = UpsertQB(@, QbParams(qb, notable_qbs), run)]
       IN  IF n = Len(unique_qbs)
           THEN /\ db' = Commit(db, view)
                /\ conn' = Commit(db, view)
                /\ k' = 0
                /\ pc' = "qbmap"
           ELSE /\ conn' = view
                /\ k' = k + 1
                /\ UNCHANGED <<db, pc>>
    /\ UNCHANGED <<qb_stats, games_data, def_rankings, team_records, notable_qbs,
                   valid_teams, enriched, qb_map, i, run, db0, prev>>

(* SELECT gsis_id, id FROM "QB" *)
LoadQbMap ==
    /\ pc = "qbmap"
    /\ qb_map' = {<<r.gsis_id, r.id>> : r \in db.QB}
    /\ i' = 0 /\ k' = 0
    /\ pc' = "perf"
    /\ UNCHANGED <<qb_stats, games_data, def_rankings, team_records, notable_qbs,
                   valid_teams, enriched, run, db, conn, db0, prev>>

(* one turn of the loop over the rows of batch enriched.iloc[i:i+batch_size], *)
(* and conn.commit() after the batch's last row.                           *)
PerfRow ==
    /\ pc = "perf"
    /\ LET n == i + k + 1
           perf == enriched[n]
           qb_id == QbMapGet(qb_map, perf.player_id)
           view == IF qb_id = 0 \/ perf.opponent \notin valid_teams THEN conn
                   ELSE [conn EXCEPT !.QBPerformance =
                            UpsertPerformance(@, PerfParams(perf, qb_id), run)]
       IN  IF BatchEnds(n, Len(enriched))
           THEN /\ db' = Commit(db, view)
                /\ conn' = Commit(db, view)
                /\ k' = 0
                /\ i' = IF n = Len(enriched) THEN 0 ELSE i + BatchSize
                /\ pc' = IF n = Len(enriched) THEN "done" ELSE "perf"
           ELSE /\ conn' = view
                /\ k' = k + 1
                /\ UNCHANGED <<db, i, pc>>
    /\ UNCHANGED <<qb_stats, games_data, def_rankings, team_records, notable_qbs,
                   valid_teams, enriched, qb_map, run, db0, prev>>

(* A statement raises SQLAlchemyError: the connection is left without a    *)
(* commit and main exits with status 1.                                    *)
Fail ==
    /\ pc \in {"snap", "qb", "perf"}
    /\ conn' = Rollback(db, conn)
    /\ db' = Rollback(db, conn)
    /\ pc' = IF pc = "snap" THEN "failed_snap"
             ELSE IF pc = "qb" THEN "failed_qb" ELSE "failed_perf"
    /\ UNCHANGED <<qb_stats, games_data, def_rankings, team_records, notable_qbs,
                   valid_teams, enriched, qb_map, i, k, run, db0, prev>>

Ended == pc \in {"done", "exit", "failed_snap", "failed_qb", "failed_perf"}

(* The next invocation of main (the Tuesday or Friday after), on the feed  *)
(* of that day.                                                            *)
StartRun ==
    /\ Ended
    /\ run < MaxRuns
    /\ \E len \in 0..MaxRows : qb_stats' \in [1..len -> PoolRows]
    /\ Feed(qb_stats')
    /\ games_data' = GamesOf(qb_stats')
    /\ def_rankings' = <<>>
    /\ team_records' = {}
    /\ notable_qbs' = {}
    /\ valid_teams' = {}
    /\ enriched' = <<>>
    /\ qb_map' = {}
    /\ i' = 0 /\ k' = 0
    /\ pc' = "rank"
    /\ run' = run + 1
    /\ prev' = [same_feed |-> qb_stats' = qb_stats,
                status |-> pc,
                db0 |-> IF qb_stats' = qb_stats /\ pc # "done" THEN db0 ELSE EmptyDb]
    /\ db0' = db
    /\ UNCHANGED <<db, conn>>

Next ==
    \/ ExitNoStats
    \/ CalcRankings
    \/ IdentifyNotable
    \/ SnapLoadTeams
    \/ SnapRow
    \/ Enrich
    \/ QbRow
    \/ LoadQbMap
    \/ PerfRow
    \/ Fail
    \/ StartRun

Spec == Init /\ [][Next]_vars

-----------------------------------------------------------------------------
(* Function-level specification: the derivations on any feed.              *)

FnInit ==
    /\ \E len \in 1..MaxRows : qb_stats \in [1..len -> FnRows]
    /\ FnFeed(qb_stats)
    /\ games_data = GamesOf(qb_stats)
    /\ def_rankings = <<>>
    /\ team_records = {}
    /\ notable_qbs = {}
    /\ valid_teams = {}
    /\ enriched = <<>>
    /\ qb_map = {}
    /\ i = 0 /\ k = 0
    /\ pc = "rank"
    /\ run = 1
    /\ db = EmptyDb /\ conn = EmptyDb /\ db0 = EmptyDb
    /\ prev = NoRun

CalcTeamRecords ==
    /\ pc = "notable"
    /\ team_records = {}
    /\ team_records' = calculate_team_records(qb_stats, games_data)
    /\ UNCHANGED <<qb_stats, games_data, def_rankings, notable_qbs, valid_teams,
                   enriched, qb_map, i, k, pc, run, db, conn, db0, prev>>

FnNext == CalcRankings \/ CalcTeamRecords

SpecFn == FnInit /\ [][FnNext]_vars

(* The rows the def_rankings argument is derived from: those of the pool   *)
(* and a week-1 game against team A (pass 10, rush -30), which puts A's    *)
(* week-2 pass rank behind X's and its total rank ahead of it.             *)
JoinRankRows ==
    PoolRows \cup {StatRow("p2", "B", "A", 2025, 1, 20, 10, -30)}

(* upsert_qbs_and_performances on a feed and the rankings of any feed, on  *)
(* an empty store.                                                         *)
JoinInit ==
    /\ \E len \in 1..MaxRows : qb_stats \in [1..len -> PoolRows]
    /\ Feed(qb_stats)
    /\ games_data = GamesOf(qb_stats)
    /\ \E len \in 0..MaxRows : \E other \in [1..len -> JoinRankRows] :
          /\ Feed(other)
          /\ def_rankings = calculate_defensive_rankings(other)
    /\ team_records = {}
    /\ notable_qbs = identify_notable_qbs(qb_stats)
    /\ valid_teams = {}
    /\ enriched = <<>>
    /\ qb_map = {}
    /\ i = 0 /\ k = 0
    /\ pc = "enrich"
    /\ run = 1
    /\ db = EmptyDb /\ conn = EmptyDb /\ db0 = EmptyDb
    /\ prev = NoRun

JoinNext == Enrich \/ QbRow \/ LoadQbMap \/ PerfRow \/ Fail

SpecJoin == JoinInit /\ [][JoinNext]_vars

(* One invocation of main on a feed in which two passers of one team face  *)
(* the same opponent in the same week (the pool and a second passer of     *)
(* team A in week 1 of 2025).                                              *)
OnceRows ==
    PoolRows \cup {StatRow("p3", "A", "B", 2025, 1, 5, 10, 0)}

OnceInit ==
    /\ \E len \in 0..MaxRows : qb_stats \in [1..len -> OnceRows]
    /\ Feed(qb_stats)
    /\ games_data = GamesOf(qb_stats)
    /\ def_rankings = <<>>
    /\ team_records = {}
    /\ notable_qbs = {}
    /\ valid_teams = {}
    /\ enriched = <<>>
    /\ qb_map = {}
    /\ i = 0 /\ k = 0
    /\ pc = "rank"
    /\ run = 1
    /\ db = EmptyDb /\ conn = EmptyDb /\ db0 = EmptyDb
    /\ prev = NoRun

OnceNext ==
    \/ ExitNoStats
    \/ CalcRankings
    \/ IdentifyNotable
    \/ SnapLoadTeams
    \/ SnapRow
    \/ Enrich
    \/ QbRow
    \/ LoadQbMap
    \/ PerfRow
    \/ Fail

SpecOnce == OnceInit /\ [][OnceNext]_vars

-----------------------------------------------------------------------------
(* Properties of the derivations. *)

RECURSIVE SumOver(_, _, _)
SumOver(rows, idx, col) ==
    IF idx = {} THEN 0
    ELSE LET n == CHOOSE m \in idx : TRUE
         IN  rows[n][col] + SumOver(rows, idx \ {n}, col)

Ranked == pc # "rank"
RankIdx == 1..Len(def_rankings)

(* input rows of season s against team t in week w *)
WeekIdx(s, t, w) ==
    {n \in 1..Len(qb_stats) :
        qb_stats[n].season = s /\ qb_stats[n].opponent = t /\ qb_stats[n].week = w}
(* input rows of season s against team t in weeks up to w *)
ThroughIdx(s, t, w) ==
    {n \in 1..Len(qb_stats) :
        qb_stats[n].season = s /\ qb_stats[n].opponent = t /\ qb_stats[n].week <= w}
TeamsPresent(s, w) ==
    {qb_stats[n].opponent :
        n \in {m \in 1..Len(qb_stats) : qb_stats[m].season = s /\ qb_stats[m].week = w}}

RankCols ==
    {<<"pass_def_rank", "cum_pass_yards_allowed">>,
     <<"rush_def_rank", "cum_rush_yards_allowed">>,
     <<"total_def_rank", "cum_total_yards_allowed">>}

(* C2: in every (season, week) and for each of the three rank columns, a   *)
(* team's rank is 1 plus the number of teams of that (season, week) with a *)
(* strictly lower cumulative value (ties share the minimum rank, the next  *)
(* value resumes after the tie), and no rank exceeds the number of teams   *)
(* present that week.                                                      *)
C2_MinTieRanking ==
    Ranked =>
        \A n \in RankIdx : \A c \in RankCols :
            LET r == def_rankings[n]
                lower == {m \in RankIdx :
                             /\ def_rankings[m].season = r.season
                             /\ def_rankings[m].week = r.week
                             /\ def_rankings[m][c[2]] < r[c[2]]}
            IN  /\ r[c[1]] = 1 + Cardinality({def_rankings[m].team_id : m \in lower})
                /\ r[c[1]] <= Cardinality(TeamsPresent(r.season, r.week))

(* Cumulative totals {300, 300, 450} in week 2 of a season are ranked      *)
(* {1, 1, 3}.                                                              *)
C2_Witness ==
    /\ Ranked
    /\ \E a, b, c \in RankIdx :
        /\ a # b /\ a # c /\ b # c
        /\ \A n \in {a, b, c} : def_rankings[n].season = 2025 /\ def_rankings[n].week = 2
        /\ def_rankings[a].cum_total_yards_allowed = 300
        /\ def_rankings[b].cum_total_yards_allowed = 300
        /\ def_rankings[c].cum_total_yards_allowed = 450
        /\ def_rankings[a].total_def_rank = 1
        /\ def_rankings[b].total_def_rank = 1
        /\ def_rankings[c].total_def_rank = 3

(* rows a, b of one (season, team) in consecutive recorded weeks *)
ConsecutiveWeeks(a, b) ==
    /\ def_rankings[a].season = def_rankings[b].season
    /\ def_rankings[a].team_id = def_rankings[b].team_id
    /\ def_rankings[a].week < def_rankings[b].week
    /\ ~ \E m \in RankIdx :
            /\ def_rankings[m].season = def_rankings[a].season
            /\ def_rankings[m].team_id = def_rankings[a].team_id
            /\ def_rankings[a].week < def_rankings[m].week
            /\ def_rankings[m].week < def_rankings[b].week

WeekTotal(s, t, w) ==
    SumOver(qb_stats, WeekIdx(s, t, w), "pass_yards")
    + SumOver(qb_stats, WeekIdx(s, t, w), "rush_yards")

(* C3 as stated: cum_total_yards_allowed never decreases from one recorded *)
(* week of a (season, team) to the next, whatever the input rows.          *)
C3_Monotonic ==
    \A a, b \in RankIdx :
        ConsecutiveWeeks(a, b) =>
            def_rankings[b].cum_total_yards_allowed
                >= def_rankings[a].cum_total_yards_allowed

(* C3 amended: cum_total_yards_allowed does not decrease from one recorded *)
(* week of a (season, team) to the next whenever the pass and rush yards   *)
(* of the input rows against that team in the later week sum to at least 0.*)
C3_MonotonicIfWeekNonNegative ==
    \A a, b \in RankIdx :
        (/\ ConsecutiveWeeks(a, b)
         /\ WeekTotal(def_rankings[b].season, def_rankings[b].team_id,
                      def_rankings[b].week) >= 0)
        => def_rankings[b].cum_total_yards_allowed
               >= def_rankings[a].cum_total_yards_allowed

C3_Witness ==
    \E a, b \in RankIdx :
        /\ ConsecutiveWeeks(a, b)
        /\ WeekTotal(def_rankings[b].season, def_rankings[b].team_id,
                     def_rankings[b].week) > 0
        /\ def_rankings[b].cum_total_yards_allowed
               > def_rankings[a].cum_total_yards_allowed

(* C10: there is a row for (season, team, week) exactly when an input row  *)
(* has that season and week with opponent = team, one row per key, and its *)
(* cumulative columns are the sums of pass_yards and rush_yards over the   *)
(* input rows of that season against that team in weeks up to that week.   *)
C10_CumulativeNoForwardFill ==
    Ranked =>
        /\ \A s \in {SEASONS[n] : n \in 1..Len(SEASONS)}, t \in Teams, w \in Weeks :
              (WeekIdx(s, t, w) # {}) <=>
              (\E n \in RankIdx : /\ def_rankings[n].season = s
                                  /\ def_rankings[n].team_id = t
                                  /\ def_rankings[n].week = w)
        /\ \A m, n \in RankIdx :
              (/\ def_rankings[m].season = def_rankings[n].season
               /\ def_rankings[m].team_id = def_rankings[n].team_id
               /\ def_rankings[m].week = def_rankings[n].week) => m = n
        /\ \A n \in RankIdx :
              LET r == def_rankings[n]
                  idx == ThroughIdx(r.season, r.team_id, r.week)
              IN  /\ WeekIdx(r.season, r.team_id, r.week) # {}
                  /\ r.cum_pass_yards_allowed = SumOver(qb_stats, idx, "pass_yards")
                  /\ r.cum_rush_yards_allowed = SumOver(qb_stats, idx, "rush_yards")
                  /\ r.cum_total_yards_allowed =
                        SumOver(qb_stats, idx, "pass_yards")
                        + SumOver(qb_stats, idx, "rush_yards")

(* A team with a bye in week 1 of a season it also defended in another     *)
(* season: its week-2 row carries that week's yards only.                  *)
C10_Witness ==
    /\ Ranked
    /\ \E m, n \in RankIdx :
        /\ def_rankings[m].team_id = def_rankings[n].team_id
        /\ def_rankings[m].season = 2024 /\ def_rankings[n].season = 2025
        /\ def_rankings[n].week = 2
        /\ WeekIdx(2025, def_rankings[n].team_id, 1) = {}
        /\ def_rankings[n].cum_pass_yards_allowed = def_rankings[n].pass_yards_allowed
        /\ def_rankings[m].cum_pass_yards_allowed > 0

(* completed games of team t in season s in weeks up to w *)
GamesPlayed(s, t, w) ==
    Cardinality({g.week : g \in {h \in games_data :
        /\ h.season = s /\ h.week <= w
        /\ t \in {h.home_team, h.away_team}}})

(* C5: the counters of a (season, team, week) record add up to the team's  *)
(* completed games through that week, win_pct is wins / (wins + losses +   *)
(* ties) when that sum is positive and missing when it is zero.            *)
C5_RecordEngine ==
    \A r \in team_records :
        LET games == r.wins + r.losses + r.ties IN
        /\ games = GamesPlayed(r.season, r.team, r.week)
        /\ games > 0 => /\ r.win_pct.den > 0
                        /\ r.win_pct.num * games = r.wins * r.win_pct.den
                        /\ 0 <= r.win_pct.num /\ r.win_pct.num <= r.win_pct.den
        /\ games = 0 => r.win_pct = Missing

-----------------------------------------------------------------------------
(* Properties of the persistence. *)

FeedIdx == 1..Len(qb_stats)
FeedPlayers == {qb_stats[n].player_id : n \in FeedIdx}
Tables == {"TeamDefenseSnapshot", "QB", "QBPerformance"}

SameKey(tbl, a, b) ==
    IF tbl = "TeamDefenseSnapshot"
    THEN a.team_id = b.team_id /\ a.season = b.season /\ a.week = b.week
    ELSE IF tbl = "QB" THEN a.gsis_id = b.gsis_id
    ELSE a.qb_id = b.qb_id /\ a.season = b.season /\ a.week = b.week

UniqueKeys(store) ==
    \A tbl \in Tables : \A a, b \in store[tbl] :
        (SameKey(tbl, a, b) \/ a.id = b.id) => a = b

NoUpdatedAt(store) ==
    [tbl \in Tables |-> {[r EXCEPT !.updatedAt = 0] : r \in store[tbl]}]

(* the first row of player p in the feed *)
FirstRowOf(p) ==
    qb_stats[CHOOSE n \in FeedIdx :
                /\ qb_stats[n].player_id = p
                /\ \A m \in 1..(n-1) : qb_stats[m].player_id # p]

(* the snapshot of def_rankings for (season, week, team), as a set *)
SnapshotsFor(s, w, t) ==
    {n \in RankIdx : /\ def_rankings[n].season = s
                     /\ def_rankings[n].week = w
                     /\ def_rankings[n].team_id = t}

QbIdOf(store, p) == {q.id : q \in {x \in store.QB : x.gsis_id = p}}

(* C1: every table holds one row per natural key; a completed run on the   *)
(* feed of the completed run before it leaves every row as it was, the     *)
(* modification timestamp aside; and a completed run keeps every earlier   *)
(* row's surrogate id, natural key and creation time while the rows of the *)
(* keys it derives carry the values derived from its feed.                 *)
C1_UpsertIdempotent ==
    /\ UniqueKeys(db) /\ UniqueKeys(conn)
    /\ (pc = "done" /\ prev.status = "done" /\ prev.same_feed)
          => NoUpdatedAt(db) = NoUpdatedAt(db0)
    /\ pc = "done" =>
        /\ \A tbl \in Tables : \A r0 \in db0[tbl] : \E r \in db[tbl] :
              r.id = r0.id /\ SameKey(tbl, r, r0) /\ r.createdAt = r0.createdAt
        /\ Cardinality(db.TeamDefenseSnapshot) =
              Cardinality({<<r.team_id, r.season, r.week>> :
                              r \in db0.TeamDefenseSnapshot}
                          \cup {<<def_rankings[n].team_id, def_rankings[n].season,
                                  def_rankings[n].week>> :
                                  n \in {m \in RankIdx : def_rankings[m].team_id \in Team}})
        /\ Cardinality(db.QB) =
              Cardinality({r.gsis_id : r \in db0.QB} \cup FeedPlayers)
        /\ \A n \in RankIdx : def_rankings[n].team_id \in Team =>
              \E r \in db.TeamDefenseSnapshot :
                  /\ r.team_id = def_rankings[n].team_id
                  /\ r.season = def_rankings[n].season
                  /\ r.week = def_rankings[n].week
                  /\ r.pass_yards_allowed = def_rankings[n].cum_pass_yards_allowed
                  /\ r.rush_yards_allowed = def_rankings[n].cum_rush_yards_allowed
                  /\ r.total_yards_allowed = def_rankings[n].cum_total_yards_allowed
                  /\ r.pass_def_rank = def_rankings[n].pass_def_rank
                  /\ r.rush_def_rank = def_rankings[n].rush_def_rank
                  /\ r.total_def_rank = def_rankings[n].total_def_rank
                  /\ r.updatedAt = run
        /\ \A p \in FeedPlayers : \E q \in db.QB :
              /\ q.gsis_id = p
              /\ q.name = FirstRowOf(p).name
              /\ q.headshot_url = FirstRowOf(p).headshot_url
              /\ q.team_id = FirstRowOf(p).team_abbr
              /\ q.updatedAt = run
        /\ \A n \in FeedIdx : qb_stats[n].opponent \in Team =>
              \E r \in db.QBPerformance :
                  /\ r.qb_id \in QbIdOf(db, qb_stats[n].player_id)
                  /\ r.season = qb_stats[n].season
                  /\ r.week = qb_stats[n].week
                  /\ r.opponent_id = qb_stats[n].opponent
                  /\ r.pass_yards = qb_stats[n].pass_yards
                  /\ r.rush_yards = qb_stats[n].rush_yards
                  /\ r.pass_attempts = qb_stats[n].attempts
                  /\ r.updatedAt = run

(* A second run whose feed corrects the yards of a passer-week: the        *)
(* performance and the opponent's snapshot are overwritten in place.       *)
C1_Witness ==
    /\ pc = "done" /\ run = 2
    /\ \E r0 \in db0.QBPerformance : \E r \in db.QBPerformance :
          r.id = r0.id /\ r.pass_yards # r0.pass_yards /\ r.createdAt = 1
    /\ \E r0 \in db0.TeamDefenseSnapshot : \E r \in db.TeamDefenseSnapshot :
          r.id = r0.id /\ r.pass_yards_allowed # r0.pass_yards_allowed

(* C4: a performance whose opponent has no snapshot for its (season, week) *)
(* is stored with opp_pass_def_rank = 16, opp_total_def_rank = 16 and      *)
(* opp_win_pct = 0.5.                                                      *)
C4_DefaultFallback ==
    \A r \in conn.QBPerformance \cup db.QBPerformance :
        SnapshotsFor(r.season, r.week, r.opponent_id) = {} =>
            /\ r.opp_pass_def_rank = 16
            /\ r.opp_total_def_rank = 16
            /\ r.opp_win_pct = Rat(1, 2)

C4_Witness ==
    \E r \in db.QBPerformance :
        /\ SnapshotsFor(r.season, r.week, r.opponent_id) = {}
        /\ r.opp_pass_def_rank = 16
        /\ \E n \in RankIdx : def_rankings[n].team_id = r.opponent_id

(* the performance a run stores for row n of its feed *)
StoredFor(store, n, r) ==
    /\ r.qb_id \in QbIdOf(store, qb_stats[n].player_id)
    /\ r.season = qb_stats[n].season
    /\ r.week = qb_stats[n].week
    /\ r.updatedAt = run

(* r carries the two ranks of every snapshot keyed (season, week, team t) *)
RanksOf(r, s, w, t) ==
    \A m \in SnapshotsFor(s, w, t) :
        /\ r.opp_pass_def_rank = def_rankings[m].pass_def_rank
        /\ r.opp_total_def_rank = def_rankings[m].total_def_rank

(* C11: a performance stored for a passer-week row whose opponent has a    *)
(* snapshot for the row's (season, week) carries the pass_def_rank and     *)
(* total_def_rank of the snapshot keyed (season, week, team = the row's    *)
(* opponent), there is one such snapshot only, and a completed run has     *)
(* stored such a performance for every such row with a valid opponent.     *)
C11_SameWeekLookup ==
    /\ \A n \in FeedIdx : \A r \in conn.QBPerformance \cup db.QBPerformance :
          StoredFor(db, n, r) =>
              /\ r.opponent_id = qb_stats[n].opponent
              /\ RanksOf(r, qb_stats[n].season, qb_stats[n].week,
                         qb_stats[n].opponent)
              /\ Cardinality(SnapshotsFor(qb_stats[n].season, qb_stats[n].week,
                                          qb_stats[n].opponent)) <= 1
    /\ pc = "done" =>
          \A n \in FeedIdx :
              (/\ qb_stats[n].opponent \in Team
               /\ SnapshotsFor(qb_stats[n].season, qb_stats[n].week,
                               qb_stats[n].opponent) # {})
              => \E r \in db.QBPerformance :
                    /\ StoredFor(db, n, r)
                    /\ RanksOf(r, qb_stats[n].season, qb_stats[n].week,
                               qb_stats[n].opponent)

(* A week-2 row against team A is stored with A's week-2 ranks (pass 2,    *)
(* total 1), which differ from A's ranks of the week before (1, 1) and     *)
(* from the week-2 ranks of the row's own team (1, 2).                     *)
C11_Witness ==
    /\ pc = "done"
    /\ \E n \in FeedIdx : \E r \in db.QBPerformance :
          /\ StoredFor(db, n, r)
          /\ qb_stats[n].week = 2
          /\ r.opp_pass_def_rank = 2 /\ r.opp_total_def_rank = 1
          /\ \E m \in SnapshotsFor(qb_stats[n].season, 2, qb_stats[n].opponent) :
                def_rankings[m].pass_def_rank = 2 /\ def_rankings[m].total_def_rank = 1
          /\ \E m \in SnapshotsFor(qb_stats[n].season, 1, qb_stats[n].opponent) :
                def_rankings[m].pass_def_rank = 1 /\ def_rankings[m].total_def_rank = 1
          /\ \E m \in SnapshotsFor(qb_stats[n].season, 2, qb_stats[n].team_abbr) :
                def_rankings[m].pass_def_rank = 1 /\ def_rankings[m].total_def_rank = 2

(* main has built the enriched frame *)
EnrichDone == pc \in {"qb", "qbmap", "perf", "done", "failed_qb", "failed_perf"}

(* C12: in a run of main every row of the feed has exactly one snapshot    *)
(* keyed (season, week, opponent) in def_rankings; the enriched frame has  *)
(* the feed's length and its n-th row is the feed's n-th row joined to     *)
(* that snapshot (the merge's team_id is the row's opponent, not missing,  *)
(* and the ranks are the snapshot's), so that no rank is the default the   *)
(* merge's missing value is filled with.                                   *)
C12_EveryRowMatchesOneSnapshot ==
    /\ Ranked =>
          \A n \in FeedIdx :
              Cardinality(SnapshotsFor(qb_stats[n].season, qb_stats[n].week,
                                       qb_stats[n].opponent)) = 1
    /\ EnrichDone =>
          /\ Len(enriched) = Len(qb_stats)
          /\ Len(Merge(qb_stats, def_rankings)) = Len(qb_stats)
          /\ \A n \in FeedIdx :
                /\ enriched[n].player_id = qb_stats[n].player_id
                /\ enriched[n].season = qb_stats[n].season
                /\ enriched[n].week = qb_stats[n].week
                /\ enriched[n].opponent = qb_stats[n].opponent
                /\ enriched[n].team_id = qb_stats[n].opponent
                /\ Merge(qb_stats, def_rankings)[n].pass_def_rank # NaN
                /\ Merge(qb_stats, def_rankings)[n].total_def_rank # NaN
                /\ \A m \in SnapshotsFor(qb_stats[n].season, qb_stats[n].week,
                                          qb_stats[n].opponent) :
                      /\ enriched[n].pass_def_rank = def_rankings[m].pass_def_rank
                      /\ enriched[n].total_def_rank = def_rankings[m].total_def_rank
                      /\ enriched[n].pass_def_rank <= Len(def_rankings)

(* A completed run on three rows: two passers against the same opponent in *)
(* the same week share one snapshot (300 + 10 yards), and a row against    *)
(* team X, which table "Team" lacks, matches X's snapshot all the same.    *)
C12_Witness ==
    /\ pc = "done"
    /\ Len(qb_stats) = 3 /\ Len(enriched) = 3
    /\ \E a, b, c \in FeedIdx :
          /\ a # b
          /\ qb_stats[a].player_id # qb_stats[b].player_id
          /\ qb_stats[a].season = qb_stats[b].season
          /\ qb_stats[a].week = qb_stats[b].week
          /\ qb_stats[a].opponent = qb_stats[b].opponent
          /\ enriched[a].team_id = enriched[b].team_id
          /\ \E m \in SnapshotsFor(qb_stats[a].season, qb_stats[a].week,
                                    qb_stats[a].opponent) :
                def_rankings[m].pass_yards_allowed = 310
          /\ qb_stats[c].opponent \notin Team
          /\ enriched[c].team_id = qb_stats[c].opponent
          /\ enriched[c].pass_def_rank = 1

(* C6 as stated: every persisted snapshot team_id, QB team_id and          *)
(* performance opponent_id is in the valid-team set.                       *)
C6_SkipInvalidTeam ==
    /\ \A r \in db.TeamDefenseSnapshot : r.team_id \in Team
    /\ \A r \in db.QB : r.team_id \in Team
    /\ \A r \in db.QBPerformance : r.opponent_id \in Team

(* C7: before the first performance statement of a run every QB of the     *)
(* run is committed, and a stored or pending performance references the id *)
(* of a committed QB row.                                                  *)
C7_TwoPhaseWriteOrder ==
    /\ (\/ pc \in {"qbmap", "perf", "done", "failed_perf"}
        \/ \E r \in conn.QBPerformance : r.updatedAt = run)
          => \A p \in FeedPlayers : \E q \in db.QB :
                q.gsis_id = p /\ q.updatedAt = run
    /\ \A r \in conn.QBPerformance \cup db.QBPerformance :
          \E q \in db.QB : q.id = r.qb_id

(* a performance statement is pending while the run's QB rows are stored *)
C7_Witness ==
    /\ pc = "perf"
    /\ conn.QBPerformance # db.QBPerformance
    /\ Cardinality({q \in db.QB : q.updatedAt = run}) = 2

(* the players whose attempts in the greatest season of the feed reach the *)
(* threshold                                                               *)
Notable ==
    {p \in FeedPlayers :
        SumOver(qb_stats,
                {n \in FeedIdx : /\ qb_stats[n].player_id = p
                                 /\ \A m \in FeedIdx :
                                       qb_stats[m].season <= qb_stats[n].season},
                "attempts") >= 50}

(* C8: identify_notable_qbs returns the players whose pass attempts in the *)
(* greatest season of the feed sum to at least 50, and once the QB phase   *)
(* is committed the QB row of every player of the feed stores exactly that.*)
C8_Notability ==
    /\ pc \notin {"rank", "notable", "exit"} => notable_qbs = Notable
    /\ pc \in {"qbmap", "perf", "done", "failed_perf"} =>
          \A q \in db.QB : q.gsis_id \in FeedPlayers =>
              (q.isNotable <=> q.gsis_id \in Notable)

(* A player stored as notable (20 + 35 attempts) is overwritten to not     *)
(* notable by a run whose feed has him below the threshold.                *)
C8_Witness ==
    /\ pc = "done"
    /\ \E q0 \in db0.QB : \E q \in db.QB :
          /\ q.id = q0.id /\ q0.isNotable /\ ~q.isNotable
          /\ q.gsis_id \in FeedPlayers

RECURSIVE FoldSnapshots(_, _, _)
FoldSnapshots(tbl, rows, now) ==
    IF rows = <<>> THEN tbl
    ELSE FoldSnapshots(
            IF Head(rows).team_id \in Team
            THEN UpsertSnapshot(tbl, SnapshotParams(Head(rows)), now) ELSE tbl,
            Tail(rows), now)

RECURSIVE FoldQbs(_, _, _, _)
FoldQbs(tbl, rows, notable, now) ==
    IF rows = <<>> THEN tbl
    ELSE FoldQbs(UpsertQB(tbl, QbParams(Head(rows), notable), now),
                 Tail(rows), notable, now)

RECURSIVE FoldPerformances(_, _, _, _)
FoldPerformances(tbl, rows, qbs, now) ==
    IF rows = <<>> THEN tbl
    ELSE LET ids == {q.id : q \in {x \in qbs : x.gsis_id = Head(rows).player_id}}
         IN  FoldPerformances(
                IF ids # {} /\ Head(rows).opponent \in Team
                THEN UpsertPerformance(tbl,
                        PerfParams(Head(rows), CHOOSE id \in ids : TRUE), now)
                ELSE tbl,
                Tail(rows), qbs, now)

(* the store an uninterrupted run on feed rows leaves, started on store *)
UninterruptedRun(store, rows, now) ==
    LET rankings == calculate_defensive_rankings(rows)
        joined == Enriched(rows, rankings)
        qbs == FoldQbs(store.QB, DropDuplicates(joined, {}),
                       identify_notable_qbs(rows), now)
    IN  [TeamDefenseSnapshot |->
            FoldSnapshots(store.TeamDefenseSnapshot, rankings, now),
         QB |-> qbs,
         QBPerformance |->
            FoldPerformances(store.QBPerformance, joined, qbs, now)]

(* a store without its generated values: surrogate ids and timestamps *)
Content(store) ==
    [TeamDefenseSnapshot |->
        {[r EXCEPT !.id = 0, !.createdAt = 0, !.updatedAt = 0] :
            r \in store.TeamDefenseSnapshot},
     QB |->
        {[r EXCEPT !.id = 0, !.createdAt = 0, !.updatedAt = 0] : r \in store.QB},
     QBPerformance |->
        {<<{q.gsis_id : q \in {x \in store.QB : x.id = r.qb_id}},
           [r EXCEPT !.id = 0, !.qb_id = 0, !.createdAt = 0, !.updatedAt = 0]>> :
            r \in store.QBPerformance}]

(* C9: the committed store holds exactly the batches before the current    *)
(* one (offset i), also after a statement of the current batch failed, the *)
(* open transaction holds the current batch's rows so far, and a completed *)
(* run that retries a failed run's feed leaves the content an              *)
(* uninterrupted run on that feed would have left.                         *)
C9_PerBatchAtomicity ==
    /\ pc \in {"snap", "failed_snap"} =>
          /\ db.TeamDefenseSnapshot =
                FoldSnapshots(db0.TeamDefenseSnapshot, SubSeq(def_rankings, 1, i), run)
          /\ db.QB = db0.QB
          /\ db.QBPerformance = db0.QBPerformance
    /\ pc = "snap" =>
          conn.TeamDefenseSnapshot =
              FoldSnapshots(db0.TeamDefenseSnapshot, SubSeq(def_rankings, 1, i + k), run)
    /\ pc = "failed_qb" =>
          /\ db.QB = db0.QB
          /\ db.QBPerformance = db0.QBPerformance
    /\ pc \in {"perf", "failed_perf"} =>
          /\ db.TeamDefenseSnapshot =
                FoldSnapshots(db0.TeamDefenseSnapshot, def_rankings, run)
          /\ db.QBPerformance =
                FoldPerformances(db0.QBPerformance, SubSeq(enriched, 1, i), db.QB, run)
    /\ pc = "perf" =>
          conn.QBPerformance =
              FoldPerformances(db0.QBPerformance, SubSeq(enriched, 1, i + k), db.QB, run)
    /\ (/\ pc = "done"
        /\ prev.same_feed
        /\ prev.status \in {"failed_snap", "failed_qb", "failed_perf"})
          => Content(db) = Content(UninterruptedRun(prev.db0, qb_stats, run))

(* A retry completes after the run before it failed in its second batch of *)
(* performances, the first batch committed.                                *)
C9_Witness ==
    /\ pc = "done"
    /\ prev.same_feed
    /\ prev.status = "failed_perf"
    /\ \E r \in db.QBPerformance : r.createdAt = run - 1
    /\ \E r \in db.QBPerformance : r.createdAt = run

====
